---- MODULE Spec2Model ----
(***************************************************************************)
(* Model of the pipes execution engine: the Graph Resolver                 *)
(* (topologicalSort), the Executor (Execute / executePipeline /            *)
(* gatherInputs / findNode), the node implementations the Executor calls   *)
(* and the store rows the Executor writes.                                 *)
(***************************************************************************)
EXTENDS Integers, Sequences, FiniteSets, TLC

(* ------------------------------ bounds --------------------------------- *)
\* longest Connection list of a definition handed to the Graph Resolver alone
MaxSortConns == 3
\* longest Connection list of a definition run through Execute
MaxConns == 2
\* longest feed a source node can fetch
MaxFeedLen == 2

\* node identifiers are strings, as in Node.ID; the identifiers that occur in
\* the definitions handed to the Graph Resolver alone (as node id or as
\* Connection endpoint), and in those run through Execute
IdNames == <<"n1", "n2", "n3", "n4">>
Ids == {"n1", "n2", "n3", "n4"}
ExecIds == {"n1", "n2", "n3"}
\* an item is represented by the value of its "title" field
Titles == {"a", "b"}

(* --------------------------- general helpers --------------------------- *)
SeqsUpTo(S, n) == UNION {[1..m -> S] : m \in 0..n}

\* all orders in which a Go map range can visit the keys S
Orderings(S) == {s \in [1..Cardinality(S) -> S] : \A i, j \in DOMAIN s : i # j => s[i] # s[j]}

Range(s) == {s[i] : i \in DOMAIN s}

(* ------------------------- pipeline definition ------------------------- *)
\* Connection{Source, Target}
Connection == [source : Ids, target : Ids]
ExecConnection == [source : ExecIds, target : ExecIds]

NodeIDs(nodes) == {nodes[i].id : i \in DOMAIN nodes}

(* --------------------------- topologicalSort --------------------------- *)
\* inDegree after "Initialize" and "Build graph": the map's key set
InDegreeKeys(nodes, connections) ==
    NodeIDs(nodes) \cup {connections[i].target : i \in DOMAIN connections}

\* inDegree after "Build graph": the value per id (0 for an id without entry)
InDegree(nodes, connections) ==
    [id \in Ids |-> Cardinality({i \in DOMAIN connections : connections[i].target = id})]

\* adjacency after "Build graph": targets in Connection-list order
RECURSIVE AdjacencyOf(_, _)
AdjacencyOf(id, connections) ==
    IF connections = <<>> THEN <<>>
    ELSE IF Head(connections).source = id
         THEN <<Head(connections).target>> \o AdjacencyOf(id, Tail(connections))
         ELSE AdjacencyOf(id, Tail(connections))

\* mutant: the "Find sources" loop lacks its test degree == 0
ZeroDegreeUntested(nodes, connections) == InDegreeKeys(nodes, connections)

\* the ids the "Find sources" loop appends to the queue
ZeroDegree(nodes, connections) ==
    {id \in InDegreeKeys(nodes, connections) : InDegree(nodes, connections)[id] = 0}

\* the condition under which the inner loop enqueues a neighbor
Ready(degree) == degree = 0

\* inner loop of Kahn's algorithm over adjacency[node]
RECURSIVE Relax(_, _, _)
Relax(neighbors, inDegree, queue) ==
    IF neighbors = <<>> THEN [inDegree |-> inDegree, queue |-> queue]
    ELSE LET neighbor == Head(neighbors)
             dec == [inDegree EXCEPT ![neighbor] = @ - 1]
         IN  Relax(Tail(neighbors), dec,
                   IF Ready(dec[neighbor]) THEN Append(queue, neighbor) ELSE queue)

\* outer loop of Kahn's algorithm
RECURSIVE Kahn(_, _, _, _)
Kahn(queue, sorted, inDegree, connections) ==
    IF queue = <<>> THEN sorted
    ELSE LET node == Head(queue)
             r == Relax(AdjacencyOf(node, connections), inDegree, Tail(queue))
         IN  Kahn(r.queue, Append(sorted, node), r.inDegree, connections)

\* mutant: an empty order counts as a cycle too
CycleDetectedOrEmpty(sorted, nodes) == Len(sorted) = 0 \/ Len(sorted) # Len(nodes)

\* the final length test of topologicalSort
CycleDetected(sorted, nodes) == Len(sorted) # Len(nodes)

\* topologicalSort(nodes, connections), seeds being the order in which the
\* range over the inDegree map delivered the zero-degree ids
topologicalSort(nodes, connections, seeds) ==
    LET sorted == Kahn(seeds, <<>>, InDegree(nodes, connections), connections)
    IN  IF CycleDetected(sorted, nodes)
        THEN [order |-> <<>>, err |-> TRUE]
        ELSE [order |-> sorted, err |-> FALSE]

SeedOrders(nodes, connections) == Orderings(ZeroDegree(nodes, connections))

(* ------------------------------ the nodes ------------------------------ *)
\* Node.Config: an absent key reads as the zero value, as the comma-ok type
\* assertions of the node implementations make it
NodeConfig == [url : {"", "u"}, limit : 0..1, count : -1..2, field : {"", "title"},
               operator : {"", "equals", "not-equals"}, value : {"", "a"},
               order : {"", "asc", "desc"}]

NoConfig == [url |-> "", limit |-> 0, count |-> 0, field |-> "", operator |-> "", value |-> "",
             order |-> ""]

\* the (type, config) pairs the definitions of this model are built from
Kinds == <<
    [type |-> "rss-source", config |-> [NoConfig EXCEPT !.url = "u"]],
    [type |-> "limit",      config |-> [NoConfig EXCEPT !.count = 1]],
    [type |-> "filter",     config |-> [NoConfig EXCEPT !.field = "title", !.operator = "equals", !.value = "a"]],
    [type |-> "rss-source", config |-> NoConfig],
    [type |-> "webhook",    config |-> NoConfig] >>

\* NewRegistry: the type strings with a registered implementation
Registered == {"rss-source", "filter", "sort", "limit"}

\* mutant: Get finds no implementation at all
RegistryGetNone(nodeType) == [ok |-> FALSE, impl |-> nodeType]

\* Registry.Get: ok is false for "unknown node type"
RegistryGet(nodeType) == [ok |-> nodeType \in Registered, impl |-> nodeType]

\* mutant: every row is written with the level info
LogRowInfo(executionID, nodeID, level, message, n, data) ==
    [execution_id |-> executionID, node_id |-> nodeID, level |-> "info",
     message |-> message, n |-> n, metadata |-> data]

\* one row of execution_logs (LogExecution leaves metadata NULL, here <<>>)
LogRow(executionID, nodeID, level, message, n, data) ==
    [execution_id |-> executionID, node_id |-> nodeID, level |-> level,
     message |-> message, n |-> n, metadata |-> data]

\* Context.Log
ContextLog(executionID, nodeID, level, message, n) ==
    LogRow(executionID, nodeID, level, message, n, <<>>)

\* what a feed fetch can deliver: the feeds of at most MaxFeedLen items in
\* which no item repeats the title of the item before it
Feeds == {f \in SeqsUpTo(Titles, MaxFeedLen) : \A i \in 1..(Len(f) - 1) : f[i] # f[i + 1]}

SubSeqTo(items, n) == [i \in 1..n |-> items[i]]

\* LimitNode.Execute
LimitExecute(config, inputs, executionID) ==
    IF Len(inputs) = 0 THEN [output |-> <<>>, failed |-> FALSE, logs |-> <<>>]
    ELSE LET items == inputs[1]
             count == config.count
         IN  IF count <= 0 \/ count >= Len(items)
             THEN [output |-> items, failed |-> FALSE, logs |-> <<>>]
             ELSE [output |-> SubSeqTo(items, count), failed |-> FALSE,
                   logs |-> <<ContextLog(executionID, "limit", "info", "Limited", count)>>]

\* getNestedValue followed by fmt.Sprintf("%v"): an item has the one field "title"
FieldStr(item, field) == IF field = "title" THEN item ELSE "<nil>"

\* matchesFilter, for the operators of NodeConfig
matchesFilter(item, field, operator, value) ==
    CASE operator = "equals" -> FieldStr(item, field) = value
      [] operator = "not-equals" -> FieldStr(item, field) # value
      [] OTHER -> TRUE

RECURSIVE FilterItems(_, _, _, _)
FilterItems(items, field, operator, value) ==
    IF items = <<>> THEN <<>>
    ELSE (IF matchesFilter(Head(items), field, operator, value) THEN <<Head(items)>> ELSE <<>>)
         \o FilterItems(Tail(items), field, operator, value)

\* FilterNode.Execute
FilterExecute(config, inputs, executionID) ==
    IF Len(inputs) = 0 THEN [output |-> <<>>, failed |-> FALSE, logs |-> <<>>]
    ELSE LET items == inputs[1]
         IN  IF config.field = "" \/ config.operator = ""
             THEN [output |-> items, failed |-> FALSE, logs |-> <<>>]
             ELSE LET filtered == FilterItems(items, config.field, config.operator, config.value)
                  IN  [output |-> filtered, failed |-> FALSE,
                       logs |-> <<ContextLog(executionID, "filter", "info", "Filtered", Len(filtered))>>]

\* the strings %v gives for a field, in the order of Go's < on strings
FieldStrOrder == <<"<nil>", "a", "b">>
Rank(str) == CHOOSE i \in DOMAIN FieldStrOrder : FieldStrOrder[i] = str

\* the less function SortNode hands to sort.SliceStable
SortLess(x, y, field, order) ==
    IF order = "desc" THEN Rank(FieldStr(x, field)) > Rank(FieldStr(y, field))
    ELSE Rank(FieldStr(x, field)) < Rank(FieldStr(y, field))

\* x is put before the first element it is less than
InsertStable(sorted, x, field, order) ==
    LET before == {i \in DOMAIN sorted : SortLess(x, sorted[i], field, order)}
        at == IF before = {} THEN Len(sorted) + 1
              ELSE CHOOSE i \in before : \A j \in before : i <= j
    IN  [i \in 1..(Len(sorted) + 1) |->
           IF i < at THEN sorted[i] ELSE IF i = at THEN x ELSE sorted[i - 1]]

\* sort.SliceStable: equal elements keep their order
RECURSIVE SliceStable(_, _, _)
SliceStable(items, field, order) ==
    IF items = <<>> THEN <<>>
    ELSE InsertStable(SliceStable(SubSeqTo(items, Len(items) - 1), field, order),
                      items[Len(items)], field, order)

\* mutant: a missing field is an error, as a missing url is for the source
SortExecuteFieldRequired(config, inputs, executionID) ==
    IF Len(inputs) = 0 THEN [output |-> <<>>, failed |-> FALSE, logs |-> <<>>]
    ELSE IF config.field = "" THEN [output |-> <<>>, failed |-> TRUE, logs |-> <<>>]
    ELSE [output |-> SliceStable(inputs[1], config.field, config.order), failed |-> FALSE,
          logs |-> <<ContextLog(executionID, "sort", "info", "Sorted", Len(inputs[1]))>>]

\* SortNode.Execute
SortExecute(config, inputs, executionID) ==
    IF Len(inputs) = 0 THEN [output |-> <<>>, failed |-> FALSE, logs |-> <<>>]
    ELSE LET items == inputs[1]
         IN  IF config.field = "" THEN [output |-> items, failed |-> FALSE, logs |-> <<>>]
             ELSE LET sorted == SliceStable(items, config.field, config.order)
                  IN  [output |-> sorted, failed |-> FALSE,
                       logs |-> <<ContextLog(executionID, "sort", "info", "Sorted", Len(sorted))>>]

\* RSSSourceNode.Execute; fetch is what ParseURLWithContext delivered: the
\* feed's items, or an error
RSSSourceExecute(config, fetch, executionID) ==
    IF config.url = "" THEN [output |-> <<>>, failed |-> TRUE, logs |-> <<>>]
    ELSE LET fetching == ContextLog(executionID, "rss-source", "info", "Fetching", 0)
         IN  IF ~fetch.ok
             THEN [output |-> <<>>, failed |-> TRUE, logs |-> <<fetching>>]
             ELSE LET items == IF config.limit > 0 /\ config.limit < Len(fetch.items)
                               THEN SubSeqTo(fetch.items, config.limit)
                               ELSE fetch.items
                  IN  [output |-> items, failed |-> FALSE,
                       logs |-> <<fetching,
                                  ContextLog(executionID, "rss-source", "info", "Retrieved", Len(items))>>]

\* what the outside world can answer to a node's Execute: only a source asks
FetchOutcomes(type) ==
    IF type = "rss-source"
    THEN {[ok |-> TRUE, items |-> f] : f \in Feeds} \cup {[ok |-> FALSE, items |-> <<>>]}
    ELSE {[ok |-> TRUE, items |-> <<>>]}

\* what a node's Execute can be answered under its ctx: ParseURLWithContext
\* fails once ctx is cancelled, and it is the only reader of ctx in the nodes
CtxOutcomes(type, cancelled) ==
    IF cancelled /\ type = "rss-source"
    THEN {[ok |-> FALSE, items |-> <<>>]}
    ELSE FetchOutcomes(type)

\* nodeImpl.Execute(ctx, node.Config, inputs, execCtx), dispatched on the type
NodeExecute(type, config, inputs, fetch, executionID) ==
    CASE type = "rss-source" -> RSSSourceExecute(config, fetch, executionID)
      [] type = "limit" -> LimitExecute(config, inputs, executionID)
      [] type = "filter" -> FilterExecute(config, inputs, executionID)
      [] type = "sort" -> SortExecute(config, inputs, executionID)

(* ------------------------------ the state ------------------------------ *)
VARIABLES
    pipes,        \* store: table pipes, pipe id -> stored configuration
    executions,   \* store: table pipe_executions, execution id -> row
    logs,         \* store: table execution_logs, in insertion order
    statusLog,    \* history: the statuses written to pipe_executions, in order
    pc,           \* where the Execute call stands
    pipeID,       \* Execute's argument
    triggerType,  \* Execute's argument
    executionID,  \* Execute's local: the identifier it allocated
    config,       \* Execute's local: the parsed PipeConfig
    order,        \* executePipeline's local: the resolved order
    idx,          \* executePipeline's loop position in order
    nodeResults,  \* executePipeline's local: node id -> output
    itemCount,    \* executePipeline's first return value
    runErr,       \* executePipeline's second return value
    ret,          \* what Execute returned: (id, err)
    invoked,      \* history: the calls of nodeImpl.Execute, in order
    writeFailed,  \* history: the kinds of store write of the run that failed
    jobs,         \* store: table scheduled_jobs, job id -> row
    now,          \* time.Now().Unix()
    advances,     \* how many times the clock has moved
    ticker,       \* Scheduler.ticker: "nil", "running" or "stopped"
    tickerC,      \* how many ticks wait in the channel ticker.C (it holds one)
    done,         \* Scheduler.done: "open" or "closed"
    goroutines,   \* the two goroutines of Start: where each stands, its tick's locals
    stopped,      \* history: Stop has returned
    late,         \* history: what the Scheduler did after Stop returned
    storeFaulty,  \* environment: the store's statements may fail
    cancelledAt,  \* environment: -1, or how many nodes had been executed when
                  \* Execute's ctx was cancelled
    self,         \* which of the concurrent Execute calls takes the next step
    parked        \* the locals of the other Execute call

\* the state of one Execute call and of the tables it writes
execVars == <<pipes, executions, logs, statusLog, pc, pipeID, triggerType, executionID,
              config, order, idx, nodeResults, itemCount, runErr, ret, invoked,
              writeFailed>>

\* the state of the Scheduler and of the table it writes
schedVars == <<jobs, now, advances, ticker, tickerC, done, goroutines, stopped, late>>

\* what no step of Execute changes
\* the environment of an Execute call
envVars == <<storeFaulty, cancelledAt, self, parked>>

restVars == <<schedVars, envVars>>

vars == <<execVars, schedVars, envVars>>

\* the results a statement of the store can have: true is success
StoreOutcomes == IF storeFaulty THEN BOOLEAN ELSE {TRUE}

\* errors, by the format string that builds them
NoErr == [kind |-> "nil", node |-> "", type |-> ""]
Err(kind) == [kind |-> kind, node |-> "", type |-> ""]

\* a map with no key yet (make(map[string][]interface{}))
EmptyMap == [x \in {} |-> <<>>]
Put(m, k, v) == [x \in DOMAIN m \cup {k} |-> IF x = k THEN v ELSE m[x]]

\* Settings, of which the model keeps RetryConfig.MaxRetries (0 when absent)
Settings(maxRetries) == [maxRetries |-> maxRetries]

EmptyConfig == [nodes |-> <<>>, connections |-> <<>>, settings |-> Settings(0)]

(* --------------------------- the definitions --------------------------- *)
\* Node ids are unique within a definition; ids being interchangeable, the
\* nodes of a definition are n1..nk and the other ids are ids of no node
NodesOf(kindOf) == [i \in DOMAIN kindOf |->
    [id |-> IdNames[i], type |-> Kinds[kindOf[i]].type, config |-> Kinds[kindOf[i]].config]]

\* the retries a definition asks for in its settings, when it asks for any
MaxRetries == 2

\* kinds are assigned in non-decreasing order (ids are interchangeable)
KindChoices(k) == {f \in [1..k -> 1..Len(Kinds)] : \A i, j \in 1..k : i <= j => f[i] <= f[j]}

\* the parsed definitions Execute is run on
ExecConfigs == {[nodes |-> NodesOf(f), connections |-> c, settings |-> Settings(r)] :
                  f \in UNION {KindChoices(k) : k \in 0..Cardinality(ExecIds)},
                  c \in SeqsUpTo(ExecConnection, MaxConns),
                  r \in {0, MaxRetries}}

\* the definitions the Graph Resolver alone is run on (types play no role)
SortConfigs == {[nodes |-> NodesOf([i \in 1..k |-> 1]), connections |-> c,
                 settings |-> Settings(0)] :
                  k \in 0..Cardinality(Ids), c \in SeqsUpTo(Connection, MaxSortConns)}

\* a row of table pipes: Config is a string that parses, or does not
StoredPipes == {[malformed |-> TRUE, config |-> EmptyConfig]}
               \cup {[malformed |-> FALSE, config |-> c] : c \in ExecConfigs}

(* ------------------------------ the store ------------------------------ *)
\* mutant: the INSERT writes the status pending
CreateExecutionPending(rows, id, pipe, trigger) ==
    Put(rows, id, [pipe_id |-> pipe, status |-> "pending", trigger_type |-> trigger,
                   completed |-> FALSE, items_processed |-> -1, error_message |-> NoErr])

\* CreateExecution: the INSERT
CreateExecution(rows, id, pipe, trigger) ==
    Put(rows, id, [pipe_id |-> pipe, status |-> "running", trigger_type |-> trigger,
                   completed |-> FALSE, items_processed |-> -1, error_message |-> NoErr])

\* mutant: the UPDATE has no WHERE clause
UpdateExecutionSuccessAll(rows, id, items) ==
    [x \in DOMAIN rows |->
        [rows[x] EXCEPT !.status = "success", !.completed = TRUE, !.items_processed = items]]

\* UpdateExecutionSuccess: the UPDATE ... WHERE id = ?
UpdateExecutionSuccess(rows, id, items) ==
    [x \in DOMAIN rows |-> IF x = id
        THEN [rows[x] EXCEPT !.status = "success", !.completed = TRUE, !.items_processed = items]
        ELSE rows[x]]

\* mutant: the failure is written to the record and to a second record
UpdateExecutionFailedTwice(rows, id, errorMessage) ==
    [x \in DOMAIN rows \cup {"e2"} |->
        [pipe_id |-> "p1", status |-> "failed", trigger_type |-> "manual", completed |-> TRUE,
         items_processed |-> -1, error_message |-> errorMessage]]

\* UpdateExecutionFailed: the UPDATE ... WHERE id = ?
UpdateExecutionFailed(rows, id, errorMessage) ==
    [x \in DOMAIN rows |-> IF x = id
        THEN [rows[x] EXCEPT !.status = "failed", !.completed = TRUE, !.error_message = errorMessage]
        ELSE rows[x]]

\* GetPipe: found is false for sql.ErrNoRows
GetPipe(id) == IF id \in DOMAIN pipes THEN [found |-> TRUE, pipe |-> pipes[id]]
               ELSE [found |-> FALSE, pipe |-> [malformed |-> TRUE, config |-> EmptyConfig]]

\* json.Unmarshal([]byte(pipe.Config), &config)
Unmarshal(pipe) == [ok |-> ~pipe.malformed, config |-> pipe.config]

(* ----------------------------- the Executor ---------------------------- *)
\* findNode: the index of the first node with that id, 0 for nil
findNode(nodes, id) ==
    IF \E i \in DOMAIN nodes : nodes[i].id = id
    THEN CHOOSE i \in DOMAIN nodes : nodes[i].id = id /\ \A j \in 1..(i - 1) : nodes[j].id # id
    ELSE 0

\* mutant: the test conn.Target == nodeID is missing
RECURSIVE gatherInputsAnyTarget(_, _, _)
gatherInputsAnyTarget(nodeID, connections, results) ==
    IF connections = <<>> THEN <<>>
    ELSE LET conn == Head(connections)
             rest == gatherInputsAnyTarget(nodeID, Tail(connections), results)
         IN  IF conn.source \in DOMAIN results
             THEN <<results[conn.source]>> \o rest
             ELSE rest

\* gatherInputs: one slot per Connection into nodeID whose source has a result
RECURSIVE gatherInputs(_, _, _)
gatherInputs(nodeID, connections, results) ==
    IF connections = <<>> THEN <<>>
    ELSE LET conn == Head(connections)
             rest == gatherInputs(nodeID, Tail(connections), results)
         IN  IF conn.target = nodeID /\ conn.source \in DOMAIN results
             THEN <<results[conn.source]>> \o rest
             ELSE rest

\* mutant: the error names the node's type only
NodeErrorTypeOnly(nodeID, type) == [kind |-> "node", node |-> "", type |-> type]

\* the error executePipeline returns when a node's Execute failed
NodeError(nodeID, type) == [kind |-> "node", node |-> nodeID, type |-> type]

\* executePipeline's "Return item count from last node"
LastItemCount(ord, results) ==
    IF Len(ord) = 0 THEN 0
    ELSE LET lastNodeID == ord[Len(ord)]
         IN  IF lastNodeID \in DOMAIN results THEN Len(results[lastNodeID]) ELSE 0

\* the record of one call of nodeImpl.Execute: its arguments, its result and
\* how many log rows existed when it was made
Invocation(nodeID, inputs, res, at) ==
    [node |-> nodeID, inputs |-> inputs, output |-> res.output, failed |-> res.failed, at |-> at]

\* the rows a write leaves in its table: none when the statement failed
Written(ok, rows) == IF ok THEN rows ELSE <<>>

\* the failed writes of the run, after a write of that kind
Failed(ok, kind) == IF ok THEN writeFailed ELSE writeFailed \cup {kind}

\* the callers of Execute: the web handler and the Scheduler
Triggers == <<"manual", "scheduled">>

\* mutant: every call allocates the same identifier
NewExecutionIDFixed(call) == "e1"

\* uuid.New().String(): an identifier no other call has
NewExecutionID(call) == <<"e1", "e2">>[call]

\* CreatePipe: a definition is stored (the store holds at most pipe "p1")
CreatePipe ==
    /\ pc = "idle"
    /\ pipes = EmptyMap
    /\ \E sp \in StoredPipes : pipes' = Put(pipes, "p1", sp)
    /\ UNCHANGED <<executions, logs, statusLog, pc, pipeID, triggerType, executionID, config,
                   order, idx, nodeResults, itemCount, runErr, ret, invoked>>
    /\ UNCHANGED <<writeFailed, restVars>>

\* Execute, lines 67-73: allocate the identifier, CreateExecution. The INSERT
\* fails on the foreign key pipe_id when the pipe is absent and the pooled
\* connection enforces foreign keys (the PRAGMA is set on one connection
\* only), and when the store fails
ExecuteCreate ==
    /\ pc = "idle"
    /\ pipeID' = "p1"
    /\ triggerType' = Triggers[self]
    /\ executionID' = NewExecutionID(self)
    /\ \E fkEnforced \in BOOLEAN, ok \in StoreOutcomes :
         IF (pipeID' \notin DOMAIN pipes /\ fkEnforced) \/ ~ok
         THEN /\ ret' = [id |-> "", err |-> Err("create execution")]
              /\ pc' = "returned"
              /\ writeFailed' = Failed(ok, "create")
              /\ UNCHANGED <<executions, statusLog>>
         ELSE /\ executions' = CreateExecution(executions, executionID', pipeID', triggerType')
              /\ statusLog' = Append(statusLog, "running")
              /\ pc' = "load"
              /\ UNCHANGED <<ret, writeFailed>>
    /\ UNCHANGED <<pipes, logs, config, order, idx, nodeResults, itemCount, runErr, invoked>>
    /\ UNCHANGED restVars

\* Execute, lines 75-88: GetPipe and json.Unmarshal
LoadPipe ==
    /\ pc = "load"
    /\ LET got == GetPipe(pipeID)
           parsed == Unmarshal(got.pipe)
       IN  IF ~got.found
           THEN /\ ret' = [id |-> "", err |-> Err("pipe not found")]
                /\ pc' = "returned"
                /\ UNCHANGED config
           ELSE IF ~parsed.ok
           THEN /\ ret' = [id |-> "", err |-> Err("parse config")]
                /\ pc' = "returned"
                /\ UNCHANGED config
           ELSE /\ config' = parsed.config
                /\ pc' = "sort"
                /\ UNCHANGED ret
    /\ UNCHANGED <<pipes, executions, logs, statusLog, pipeID, triggerType, executionID,
                   order, idx, nodeResults, itemCount, runErr, invoked>>
    /\ UNCHANGED <<writeFailed, restVars>>

\* executePipeline, lines 106-113: topologicalSort, then the empty result map
ResolveOrder ==
    /\ pc = "sort"
    /\ \E seeds \in SeedOrders(config.nodes, config.connections) :
         LET r == topologicalSort(config.nodes, config.connections, seeds)
         IN  IF r.err
             THEN /\ runErr' = Err("topological sort")
                  /\ itemCount' = 0
                  /\ pc' = "finish"
                  /\ UNCHANGED <<order, idx, nodeResults>>
             ELSE /\ order' = r.order
                  /\ idx' = 1
                  /\ nodeResults' = EmptyMap
                  /\ pc' = "loop"
                  /\ UNCHANGED <<runErr, itemCount>>
    /\ UNCHANGED <<pipes, executions, logs, statusLog, pipeID, triggerType, executionID,
                   config, ret, invoked>>
    /\ UNCHANGED <<writeFailed, restVars>>

\* executePipeline, lines 115-142: one iteration of the loop over order. The
\* results of LogExecution and LogExecutionWithData are dropped, as Context.Log
\* drops the result of the node's own log calls
RunNode ==
    /\ pc = "loop"
    /\ idx <= Len(order)
    /\ LET nodeID == order[idx]
           at == findNode(config.nodes, nodeID)
       IN  IF at = 0
           THEN \* continue
                /\ idx' = idx + 1
                /\ UNCHANGED <<logs, nodeResults, itemCount, runErr, pc, invoked, writeFailed>>
           ELSE LET node == config.nodes[at]
                    impl == RegistryGet(node.type)
                IN  IF ~impl.ok
                    THEN /\ runErr' = [kind |-> "get node type", node |-> "", type |-> node.type]
                         /\ itemCount' = 0
                         /\ pc' = "finish"
                         /\ UNCHANGED <<logs, nodeResults, idx, invoked, writeFailed>>
                    ELSE \E fetch \in CtxOutcomes(node.type, cancelledAt >= 0), okCtx \in StoreOutcomes, ok \in StoreOutcomes :
                         LET inputs == gatherInputs(nodeID, config.connections, nodeResults)
                             res == NodeExecute(node.type, node.config, inputs, fetch, executionID)
                         IN  /\ invoked' = Append(invoked, Invocation(nodeID, inputs, res, Len(logs)))
                             /\ writeFailed' = Failed(ok /\ (okCtx \/ res.logs = <<>>), "log")
                             /\ IF res.failed
                                THEN /\ logs' = logs \o Written(okCtx, res.logs) \o Written(ok,
                                        <<LogRow(executionID, nodeID, "error", "Execution failed", 0, <<>>)>>)
                                     /\ runErr' = NodeError(nodeID, node.type)
                                     /\ itemCount' = 0
                                     /\ pc' = "finish"
                                     /\ UNCHANGED <<nodeResults, idx>>
                                ELSE /\ nodeResults' = Put(nodeResults, nodeID, res.output)
                                     /\ logs' = logs \o Written(okCtx, res.logs) \o Written(ok,
                                        <<LogRow(executionID, nodeID, "data", "items",
                                                 Len(res.output), res.output)>>)
                                     /\ idx' = idx + 1
                                     /\ UNCHANGED <<runErr, itemCount, pc>>
    /\ UNCHANGED <<pipes, executions, statusLog, pipeID, triggerType, executionID, config,
                   order, ret>>
    /\ UNCHANGED restVars

\* executePipeline, lines 144-151: the loop is over, return the item count
ReturnItemCount ==
    /\ pc = "loop"
    /\ idx > Len(order)
    /\ itemCount' = LastItemCount(order, nodeResults)
    /\ runErr' = NoErr
    /\ pc' = "finish"
    /\ UNCHANGED <<pipes, executions, logs, statusLog, pipeID, triggerType, executionID,
                   config, order, idx, nodeResults, ret, invoked>>
    /\ UNCHANGED <<writeFailed, restVars>>

\* Execute, lines 93-102: the terminal update, whose result is dropped, and
\* the return
FinishRun ==
    /\ pc = "finish"
    /\ \E ok \in StoreOutcomes :
         /\ writeFailed' = Failed(ok, "update")
         /\ IF runErr # NoErr
            THEN /\ executions' = IF ok THEN UpdateExecutionFailed(executions, executionID, runErr)
                                  ELSE executions
                 /\ statusLog' = statusLog \o Written(ok, <<"failed">>)
                 /\ ret' = [id |-> executionID, err |-> runErr]
            ELSE /\ executions' = IF ok THEN UpdateExecutionSuccess(executions, executionID, itemCount)
                                  ELSE executions
                 /\ statusLog' = statusLog \o Written(ok, <<"success">>)
                 /\ ret' = [id |-> executionID, err |-> NoErr]
    /\ pc' = "returned"
    /\ UNCHANGED <<pipes, logs, pipeID, triggerType, executionID, config, order, idx,
                   nodeResults, itemCount, runErr, invoked>>
    /\ UNCHANGED restVars

\* topologicalSort called on its own on a definition
SortOnly ==
    /\ pc = "sortInput"
    /\ \E cfg \in SortConfigs :
         \E seeds \in SeedOrders(cfg.nodes, cfg.connections) :
           LET r == topologicalSort(cfg.nodes, cfg.connections, seeds)
           IN  /\ config' = cfg
               /\ order' = r.order
               /\ runErr' = IF r.err THEN Err("topological sort") ELSE NoErr
    /\ pc' = "sortDone"
    /\ UNCHANGED <<pipes, executions, logs, statusLog, pipeID, triggerType, executionID,
                   idx, nodeResults, itemCount, ret, invoked>>
    /\ UNCHANGED <<writeFailed, restVars>>

\* the transform nodes of the registry
Transforms == {"filter", "sort", "limit"}

\* how many input slots a node is handed at most
MaxSlots == 2

\* the inputs a node can be handed: each slot holds the items of a feed
InputSlots == SeqsUpTo(Feeds, MaxSlots)

\* a transform's Execute called on its own, with any configuration and inputs
NodeOnly ==
    /\ pc = "nodeInput"
    /\ \E type \in Transforms, cfg \in NodeConfig, inputs \in InputSlots :
         LET res == NodeExecute(type, cfg, inputs, [ok |-> TRUE, items |-> <<>>], "e1")
         IN  /\ config' = [nodes |-> <<[id |-> "n1", type |-> type, config |-> cfg]>>,
                           connections |-> <<>>, settings |-> Settings(0)]
             /\ invoked' = <<Invocation("n1", inputs, res, 0)>>
             /\ logs' = res.logs
    /\ pc' = "nodeDone"
    /\ UNCHANGED <<pipes, executions, statusLog, pipeID, triggerType, executionID, order,
                   idx, nodeResults, itemCount, runErr, ret, writeFailed>>
    /\ UNCHANGED restVars

(* ------------------------- concurrent Execute calls -------------------- *)
\* the locals of the Execute call that is taking steps
Locals == [pc |-> pc, pipeID |-> pipeID, triggerType |-> triggerType,
           executionID |-> executionID, config |-> config, order |-> order, idx |-> idx,
           nodeResults |-> nodeResults, itemCount |-> itemCount, runErr |-> runErr,
           ret |-> ret, invoked |-> invoked, writeFailed |-> writeFailed]

\* the locals of a call that has not begun
IdleCall == [pc |-> "idle", pipeID |-> "", triggerType |-> "", executionID |-> "",
             config |-> EmptyConfig, order |-> <<>>, idx |-> 0, nodeResults |-> EmptyMap,
             itemCount |-> 0, runErr |-> NoErr, ret |-> [id |-> "", err |-> NoErr],
             invoked |-> <<>>, writeFailed |-> {}]

\* there is no other call
NoCall == [IdleCall EXCEPT !.pc = "none"]

\* the pipes concurrent calls are run on: a source and a transform, the
\* source feeding the transform or not
ConcPipes == {[malformed |-> FALSE, config |-> [nodes |-> NodesOf(f), connections |-> c,
                                                settings |-> Settings(0)]] :
                f \in {<<1, 2>>, <<1, 3>>},
                c \in {<<>>, <<[source |-> "n1", target |-> "n2"]>>}}

\* CreatePipe, for the pipe that the two calls run
ConcCreatePipe ==
    /\ pc = "idle" /\ parked.pc = "idle"
    /\ pipes = EmptyMap
    /\ \E sp \in ConcPipes : pipes' = Put(pipes, "p1", sp)
    /\ UNCHANGED <<executions, logs, statusLog, pc, pipeID, triggerType, executionID, config,
                   order, idx, nodeResults, itemCount, runErr, ret, invoked, writeFailed>>
    /\ UNCHANGED restVars

\* the caller cancels the ctx it passed to Execute, while the call is under way
Cancel ==
    /\ pc \in {"load", "sort", "loop"}
    /\ cancelledAt = -1
    /\ cancelledAt' = Len(invoked)
    /\ UNCHANGED <<execVars, schedVars, storeFaulty, self, parked>>

\* the scheduler of goroutines: the other call takes the next steps. The
\* tables are shared, the locals of each call are its own
Switch ==
    /\ parked.pc # "none"
    /\ self' = 3 - self
    /\ parked' = Locals
    /\ pc' = parked.pc
    /\ pipeID' = parked.pipeID
    /\ triggerType' = parked.triggerType
    /\ executionID' = parked.executionID
    /\ config' = parked.config
    /\ order' = parked.order
    /\ idx' = parked.idx
    /\ nodeResults' = parked.nodeResults
    /\ itemCount' = parked.itemCount
    /\ runErr' = parked.runErr
    /\ ret' = parked.ret
    /\ invoked' = parked.invoked
    /\ writeFailed' = parked.writeFailed
    /\ UNCHANGED <<pipes, executions, logs, statusLog, storeFaulty, cancelledAt, schedVars>>

(* ----------------------------- the Scheduler --------------------------- *)
\* the interval of the ticker, and the delay to a job's next run, in seconds
Minute == 60
Hour == 3600

\* how many times the clock moves in a behaviour
MaxAdvances == 1

\* the rows table scheduled_jobs can hold: job ids, and the pipe of each
JobIDs == <<"j1", "j2">>
JobPipes == <<"p1", "p2">>

GoroutineNames == {"first", "loop"}

\* mutant: the Scheduler passes the web handler's trigger kind
ScheduledTriggerManual == Triggers[1]

\* the trigger kind executeJob passes to Execute
ScheduledTrigger == Triggers[2]

\* a goroutine that runs tick: pc is where it stands, due is tick's jobs, i the
\* loop position, execFailed is executeJob's err, nextRun is executeJob's
\* nextRun, and ran is the history of
\* the executeJob calls of the tick
Goroutine(p) == [pc |-> p, due |-> <<>>, i |-> 0, execFailed |-> FALSE, trigger |-> "",
                 nextRun |-> 0, ran |-> <<>>]

\* the cron expression of the model's jobs
CronExpression == "0 * * * *"

\* CreateScheduledJob: the INSERT (enabled = 1, last_run_at NULL written -1)
CreateScheduledJobRow(rows, id, pipe, cronExpression, nextRunAt) ==
    Put(rows, id, [pipe_id |-> pipe, cron_expression |-> cronExpression,
                   next_run_at |-> nextRunAt, last_run_at |-> -1, enabled |-> TRUE])

\* mutant: the query selects by next_run_at alone
GetDueJobsAnyEnabled(rows, t) == {id \in DOMAIN rows : rows[id].next_run_at <= t}

\* mutant: the query compares with < where the statement has <=
GetDueJobsBefore(rows, t) == {id \in DOMAIN rows : rows[id].enabled /\ rows[id].next_run_at < t}

\* GetDueJobs: WHERE enabled = 1 AND next_run_at <= ?
GetDueJobs(rows, t) == {id \in DOMAIN rows : rows[id].enabled /\ rows[id].next_run_at <= t}

\* mutant: the UPDATE leaves last_run_at alone
UpdateJobAfterRunNextOnly(rows, id, lastRunAt, nextRunAt) ==
    [x \in DOMAIN rows |-> IF x = id THEN [rows[x] EXCEPT !.next_run_at = nextRunAt]
                                     ELSE rows[x]]

\* mutant: the UPDATE also disables the job
UpdateJobAfterRunDisabling(rows, id, lastRunAt, nextRunAt) ==
    [x \in DOMAIN rows |-> IF x = id
        THEN [rows[x] EXCEPT !.last_run_at = lastRunAt, !.next_run_at = nextRunAt,
                             !.enabled = FALSE]
        ELSE rows[x]]

\* UpdateJobAfterRun: the UPDATE ... WHERE id = ?
UpdateJobAfterRun(rows, id, lastRunAt, nextRunAt) ==
    [x \in DOMAIN rows |-> IF x = id
        THEN [rows[x] EXCEPT !.last_run_at = lastRunAt, !.next_run_at = nextRunAt]
        ELSE rows[x]]

\* what the Scheduler does once Stop has returned is remembered
Late(what) == IF stopped THEN late \cup {what} ELSE late

\* a row is written to scheduled_jobs (by CreateScheduledJob, or disabled by
\* hand); the rows are there when the Scheduler starts
CreateScheduledJob ==
    /\ ticker = "nil"
    /\ done = "open"
    /\ Cardinality(DOMAIN jobs) < Len(JobIDs)
    /\ LET k == Cardinality(DOMAIN jobs) + 1
       IN  \E nextRunAt \in {0, Hour}, enabled \in BOOLEAN :
             jobs' = [CreateScheduledJobRow(jobs, JobIDs[k], JobPipes[k], CronExpression,
                                            nextRunAt)
                        EXCEPT ![JobIDs[k]].enabled = enabled]
    /\ UNCHANGED <<now, advances, ticker, tickerC, done, goroutines, stopped, late>>
    /\ UNCHANGED <<execVars, envVars>>

\* time passes, a minute or an hour, counted from Start; a running ticker
\* leaves one tick in its channel and drops the others
Advance ==
    /\ ticker # "nil"
    /\ advances < MaxAdvances
    /\ advances' = advances + 1
    /\ \E d \in {Minute, Hour} : now' = now + d
    /\ tickerC' = IF ticker = "running" THEN 1 ELSE tickerC
    /\ UNCHANGED <<jobs, ticker, done, goroutines, stopped, late>>
    /\ UNCHANGED <<execVars, envVars>>

\* the running ticker fires once more, at a time past the clock readings of
\* the model: its tick goes into the channel when the channel is empty
TickerFire ==
    /\ ticker = "running"
    /\ tickerC = 0
    /\ tickerC' = 1
    /\ UNCHANGED <<jobs, now, advances, ticker, done, goroutines, stopped, late>>
    /\ UNCHANGED <<execVars, envVars>>

\* Start, lines 88-107: the ticker, go s.tick(), and the polling goroutine
Start ==
    /\ ticker = "nil"
    /\ done = "open"
    /\ ticker' = "running"
    /\ goroutines' = [g \in GoroutineNames |->
                        IF g = "first" THEN Goroutine("tick") ELSE Goroutine("select")]
    /\ UNCHANGED <<jobs, now, advances, tickerC, done, stopped, late>>
    /\ UNCHANGED <<execVars, envVars>>

\* Stop, lines 146-153: ticker.Stop() leaves the channel as it is; close(done)
Stop ==
    /\ done = "open"
    /\ ticker' = IF ticker = "nil" THEN "nil" ELSE "stopped"
    /\ done' = "closed"
    /\ stopped' = TRUE
    /\ UNCHANGED <<jobs, now, advances, tickerC, goroutines, late>>
    /\ UNCHANGED <<execVars, envVars>>

\* Stop called once more, lines 146-153: close(done) of a closed channel
\* panics, and the panic ends the program with all its goroutines
StopAgain ==
    /\ done = "closed"
    /\ done' = "panic"
    /\ ticker' = IF ticker = "nil" THEN "nil" ELSE "stopped"
    /\ goroutines' = [g \in GoroutineNames |-> Goroutine("exited")]
    /\ UNCHANGED <<jobs, now, advances, tickerC, stopped, late>>
    /\ UNCHANGED <<execVars, envVars>>

\* Start called after Stop, lines 88-107, once the earlier goroutines are
\* gone: a new ticker with an empty channel and two new goroutines; done
\* stays closed, there is no statement that makes a new channel
StartAgain ==
    /\ done = "closed"
    /\ \A g \in GoroutineNames : goroutines[g].pc \in {"none", "exited"}
    /\ ticker' = "running"
    /\ tickerC' = 0
    /\ goroutines' = [g \in GoroutineNames |->
                        IF g = "first" THEN Goroutine("tick") ELSE Goroutine("select")]
    /\ UNCHANGED <<jobs, now, advances, done, stopped, late>>
    /\ UNCHANGED <<execVars, envVars>>

\* the select of lines 98-105: a case that can proceed is chosen, any of them
\* when both can
Select ==
    /\ goroutines["loop"].pc = "select"
    /\ \/ /\ tickerC > 0
          /\ tickerC' = tickerC - 1
          /\ goroutines' = [goroutines EXCEPT !["loop"].pc = "tick"]
       \/ /\ done = "closed"
          /\ goroutines' = [goroutines EXCEPT !["loop"].pc = "exited"]
          /\ UNCHANGED tickerC
    /\ UNCHANGED <<jobs, now, advances, ticker, done, stopped, late>>
    /\ UNCHANGED <<execVars, envVars>>

\* tick, lines 109-117: now, GetDueJobs; the rows come in any order (the query
\* has no ORDER BY); on an error the tick is over
TickBegin(g) ==
    /\ goroutines[g].pc = "tick"
    /\ late' = Late("tick")
    /\ \E ok \in StoreOutcomes :
         IF ok
         THEN \E ord \in Orderings(GetDueJobs(jobs, now)) :
                goroutines' = [goroutines EXCEPT ![g] =
                    [pc |-> "jobs", i |-> 1, execFailed |-> FALSE, trigger |-> "", nextRun |-> 0,
                     ran |-> <<>>,
                     due |-> [k \in DOMAIN ord |->
                                [id |-> ord[k], pipe_id |-> jobs[ord[k]].pipe_id,
                                 next_run_at |-> jobs[ord[k]].next_run_at]]]]
         ELSE goroutines' = [goroutines EXCEPT ![g] =
                    [pc |-> "jobs", i |-> 1, execFailed |-> FALSE, trigger |-> "", nextRun |-> 0,
                     ran |-> <<>>,
                     due |-> <<>>]]
    /\ UNCHANGED <<jobs, now, advances, ticker, tickerC, done, stopped>>
    /\ UNCHANGED <<execVars, envVars>>

\* executeJob, lines 131-139: Execute(ctx, job.PipeID, "scheduled"), whose
\* error is logged, and then nextRun, one hour after the clock's reading
ExecuteJob(g) ==
    /\ goroutines[g].pc = "jobs"
    /\ goroutines[g].i <= Len(goroutines[g].due)
    /\ late' = Late("execute")
    /\ \E err \in BOOLEAN :
         goroutines' = [goroutines EXCEPT ![g].pc = "update", ![g].execFailed = err,
                                          ![g].trigger = ScheduledTrigger,
                                          ![g].nextRun = now + Hour]
    /\ UNCHANGED <<jobs, now, advances, ticker, tickerC, done, stopped>>
    /\ UNCHANGED <<execVars, envVars>>

\* executeJob, lines 142-143: the clock is read again for now, and
\* UpdateJobAfterRun(job.ID, now, nextRun), whose error tick logs before it
\* goes to the next job
UpdateJob(g) ==
    /\ goroutines[g].pc = "update"
    /\ LET job == goroutines[g].due[goroutines[g].i]
       IN  \E ok \in StoreOutcomes :
             /\ jobs' = IF ok THEN UpdateJobAfterRun(jobs, job.id, now, goroutines[g].nextRun)
                               ELSE jobs
             /\ goroutines' = [goroutines EXCEPT
                   ![g].pc = "jobs",
                   ![g].i = @ + 1,
                   ![g].execFailed = FALSE,
                   ![g].trigger = "",
                   ![g].nextRun = 0,
                   ![g].ran = Append(@, [job |-> job.id, execFailed |-> goroutines[g].execFailed,
                                         trigger |-> goroutines[g].trigger,
                                         updated |-> ok])]
    /\ UNCHANGED <<now, advances, ticker, tickerC, done, stopped, late>>
    /\ UNCHANGED <<execVars, envVars>>

\* tick returns and its locals are gone: the first goroutine ends, the polling
\* one is back at its select
TickEnd(g) ==
    /\ goroutines[g].pc = "jobs"
    /\ goroutines[g].i > Len(goroutines[g].due)
    /\ goroutines' = [goroutines EXCEPT ![g] =
                        IF g = "first" THEN Goroutine("exited") ELSE Goroutine("select")]
    /\ UNCHANGED <<jobs, now, advances, ticker, tickerC, done, stopped, late>>
    /\ UNCHANGED <<execVars, envVars>>

(* -------------------------- the specifications ------------------------- *)
InitLocals ==
    /\ pipes = EmptyMap
    /\ executions = EmptyMap
    /\ pipeID = ""
    /\ triggerType = ""
    /\ config = EmptyConfig
    /\ logs = <<>>
    /\ statusLog = <<>>
    /\ executionID = ""
    /\ order = <<>>
    /\ idx = 0
    /\ nodeResults = EmptyMap
    /\ itemCount = 0
    /\ runErr = NoErr
    /\ ret = [id |-> "", err |-> NoErr]
    /\ invoked = <<>>
    /\ writeFailed = {}
    /\ cancelledAt = -1

\* a Scheduler that NewScheduler has just built, no row in scheduled_jobs
InitScheduler ==
    /\ jobs = EmptyMap
    /\ now = 0
    /\ advances = 0
    /\ ticker = "nil"
    /\ tickerC = 0
    /\ done = "open"
    /\ goroutines = [g \in GoroutineNames |-> Goroutine("none")]
    /\ stopped = FALSE
    /\ late = {}

\* an empty store and no Execute call yet
Init ==
    /\ InitLocals
    /\ InitScheduler
    /\ pc = "idle"
    /\ storeFaulty = FALSE
    /\ self = 1
    /\ parked = NoCall

Next == CreatePipe \/ ExecuteCreate \/ LoadPipe \/ ResolveOrder \/ RunNode \/ ReturnItemCount \/ FinishRun

Spec == Init /\ [][Next]_vars

\* the Graph Resolver alone, on every definition of SortConfigs
InitSort ==
    /\ InitLocals
    /\ InitScheduler
    /\ pc = "sortInput"
    /\ storeFaulty = FALSE
    /\ self = 1
    /\ parked = NoCall

NextSort == SortOnly

SortSpec == InitSort /\ [][NextSort]_vars

\* one Execute call on a store whose statements may fail
InitFault ==
    /\ InitLocals
    /\ InitScheduler
    /\ pc = "idle"
    /\ storeFaulty = TRUE
    /\ self = 1
    /\ parked = NoCall

FaultSpec == InitFault /\ [][Next]_vars

\* one Execute call whose ctx the caller may cancel
NextCancel == Next \/ Cancel

CancelSpec == Init /\ [][NextCancel]_vars

\* the transform nodes alone, on every configuration and input of the model
InitNode ==
    /\ InitLocals
    /\ InitScheduler
    /\ pc = "nodeInput"
    /\ storeFaulty = FALSE
    /\ self = 1
    /\ parked = NoCall

NextNode == NodeOnly

NodeSpec == InitNode /\ [][NextNode]_vars

\* two Execute calls on the same pipe, one from the web handler and one from
\* the Scheduler, their steps interleaved in every way
InitConc ==
    /\ InitLocals
    /\ InitScheduler
    /\ pc = "idle"
    /\ storeFaulty = FALSE
    /\ self = 1
    /\ parked = IdleCall

NextConc ==
    \/ ConcCreatePipe
    \/ ExecuteCreate
    \/ LoadPipe
    \/ ResolveOrder
    \/ RunNode
    \/ ReturnItemCount
    \/ FinishRun
    \/ Switch

ConcSpec == InitConc /\ [][NextConc]_vars

\* the Scheduler between NewScheduler and the end of the program, on a store
\* whose statements may fail
InitSched ==
    /\ InitLocals
    /\ InitScheduler
    /\ pc = "scheduler"
    /\ storeFaulty = TRUE
    /\ self = 1
    /\ parked = NoCall

NextSched ==
    \/ CreateScheduledJob
    \/ Advance
    \/ Start
    \/ Stop
    \/ Select
    \/ \E g \in GoroutineNames : TickBegin(g) \/ ExecuteJob(g) \/ UpdateJob(g) \/ TickEnd(g)

SchedSpec == InitSched /\ [][NextSched]_vars

\* the Scheduler that is started and not stopped, on a store whose statements
\* succeed, with a ticker that keeps firing and goroutines that keep being
\* scheduled; every call of Execute returns
InitLive ==
    /\ InitLocals
    /\ InitScheduler
    /\ pc = "scheduler"
    /\ storeFaulty = FALSE
    /\ self = 1
    /\ parked = NoCall

GoroutineStep(g) == TickBegin(g) \/ ExecuteJob(g) \/ UpdateJob(g) \/ TickEnd(g)

NextLive ==
    \/ CreateScheduledJob
    \/ Advance
    \/ Start
    \/ TickerFire
    \/ Select
    \/ \E g \in GoroutineNames : GoroutineStep(g)

LiveSpec ==
    /\ InitLive
    /\ [][NextLive]_vars
    /\ WF_vars(TickerFire)
    /\ WF_vars(Select)
    /\ \A g \in GoroutineNames : WF_vars(GoroutineStep(g))

\* the Scheduler under any sequence of Start and Stop calls
NextLifecycle == NextSched \/ StopAgain \/ StartAgain

LifecycleSpec == InitSched /\ [][NextLifecycle]_vars

\* the engine's two entry points, each from its own start: an Execute call on
\* a store with at most one pipe, or the Scheduler
InitEngine == Init \/ InitSched

NextEngine ==
    \/ pc # "scheduler" /\ Next
    \/ pc = "scheduler" /\ NextSched

EngineSpec == InitEngine /\ [][NextEngine]_vars

(* ------------------------ vocabulary of the claims --------------------- *)
Pos(s, x) == CHOOSE i \in DOMAIN s : s[i] = x
Injective(s) == \A i, j \in DOMAIN s : i # j => s[i] # s[j]
ConnSet(connections) == Range(connections)

\* the Connections whose two endpoints are nodes of the definition
IsValidConn(nodes, c) == c.source \in NodeIDs(nodes) /\ c.target \in NodeIDs(nodes)
ValidConns(nodes, connections) == SelectSeq(connections, LAMBDA c : IsValidConn(nodes, c))
AllConnsValid(nodes, connections) == \A c \in ConnSet(connections) : IsValidConn(nodes, c)

\* the ids reachable from the ids S in one or more steps along the edges E
RECURSIVE ReachN(_, _, _)
ReachN(E, S, n) ==
    LET next == {c.target : c \in {e \in E : e.source \in S}}
    IN  IF n = 0 THEN {} ELSE next \cup ReachN(E, next, n - 1)
Reachable(E, S) == ReachN(E, S, Cardinality(E))

\* a directed cycle among the nodes (a self-loop included)
HasCycle(nodes, connections) ==
    LET E == ConnSet(ValidConns(nodes, connections))
    IN  \E id \in NodeIDs(nodes) : id \in Reachable(E, {id})

Stored == "p1" \in DOMAIN pipes /\ ~pipes["p1"].malformed
Record == executions[executionID]
Created == executionID \in DOMAIN executions

(* --------------------------------- C1 ---------------------------------- *)
\* C1: on an acyclic graph whose Connections all join nodes, topologicalSort
\* returns no error and an order that holds every node id exactly once and
\* every Connection's source before its target.
C1_AcyclicSorted ==
    (pc = "sortDone" /\ AllConnsValid(config.nodes, config.connections)
       /\ ~HasCycle(config.nodes, config.connections))
    => /\ runErr = NoErr
       /\ Len(order) = Len(config.nodes)
       /\ Injective(order)
       /\ Range(order) = NodeIDs(config.nodes)
       /\ \A c \in ConnSet(config.connections) : Pos(order, c.source) < Pos(order, c.target)

\* an acyclic fan-in over three nodes was sorted, a node other than n1 first
C1_Witness ==
    /\ pc = "sortDone" /\ AllConnsValid(config.nodes, config.connections)
    /\ ~HasCycle(config.nodes, config.connections)
    /\ Len(config.nodes) = 3 /\ Len(config.connections) = 3
    /\ \E c, d \in ConnSet(config.connections) : c.target = d.target /\ c.source # d.source
    /\ runErr = NoErr /\ order[1] # "n1"

(* --------------------------------- C2 ---------------------------------- *)
\* C2: on a graph with a directed cycle among its nodes, whatever other
\* Connections the list holds, topologicalSort returns the cycle error and no
\* order.
C2_CycleRejected ==
    (pc = "sortDone" /\ HasCycle(config.nodes, config.connections))
    => runErr = Err("topological sort") /\ order = <<>>

(* --------------------------------- C3 ---------------------------------- *)
\* the definition deviates in nothing but Connections from ids of no node:
\* every target is a node, the nodes cannot fail, there is no cycle
OnlyDanglingSources(nodes, connections) ==
    /\ \E c \in ConnSet(connections) : c.source \notin NodeIDs(nodes)
    /\ \A c \in ConnSet(connections) : c.target \in NodeIDs(nodes)
    /\ \A i \in DOMAIN nodes : nodes[i].type \in {"limit", "filter"}
    /\ ~HasCycle(nodes, connections)

\* C3: with a Connection X -> Y, X no node and Y a node, Execute proceeds
\* without error: Y is executed, gets no data for that edge, and the record
\* ends success.
C3_DanglingSourceTolerated ==
    (pc = "returned" /\ Stored /\ Created
       /\ OnlyDanglingSources(pipes["p1"].config.nodes, pipes["p1"].config.connections))
    => /\ ret.err = NoErr
       /\ Record.status = "success"
       /\ \A c \in ConnSet(config.connections) :
            c.source \notin NodeIDs(config.nodes)
            => \E i \in DOMAIN invoked : invoked[i].node = c.target

(* --------------------------------- C4 ---------------------------------- *)
\* C4: Connections with an endpoint that is no node are ignored: success of
\* topologicalSort and the ids of its order are those of the same call without
\* them, and the order holds ids of nodes only.
C4_DanglingIgnored ==
    pc = "sortDone" =>
      LET valid == ValidConns(config.nodes, config.connections)
      IN  /\ Range(order) \subseteq NodeIDs(config.nodes)
          /\ \A seeds \in SeedOrders(config.nodes, valid) :
               LET r == topologicalSort(config.nodes, valid, seeds)
               IN  /\ r.err <=> (runErr # NoErr)
                   /\ Range(r.order) = Range(order)

(* --------------------------------- C5 ---------------------------------- *)
\* the calls before call i in which node id returned an output
ProducedBefore(id, i) == {j \in 1..(i - 1) : invoked[j].node = id /\ ~invoked[j].failed}

\* the outputs of the sources of the Connections from nodes into nodeID, in
\* Connection-list order
RECURSIVE UpstreamOutputs(_, _, _)
UpstreamOutputs(connections, nodeID, i) ==
    IF connections = <<>> THEN <<>>
    ELSE LET c == Head(connections)
             rest == UpstreamOutputs(Tail(connections), nodeID, i)
         IN  IF c.target = nodeID /\ c.source \in NodeIDs(config.nodes)
             THEN <<invoked[CHOOSE j \in ProducedBefore(c.source, i) : TRUE].output>> \o rest
             ELSE rest

\* C5: when node B is executed and a Connection A -> B from a node A exists,
\* A has produced its output earlier in the run, once, and B's inputs are the
\* outputs of those sources, unchanged, one slot per Connection in list order.
C5_InputsAreUpstreamOutputs ==
    \A i \in DOMAIN invoked :
      /\ \A c \in ConnSet(config.connections) :
           (c.target = invoked[i].node /\ c.source \in NodeIDs(config.nodes))
           => Cardinality(ProducedBefore(c.source, i)) = 1
      /\ invoked[i].inputs = UpstreamOutputs(config.connections, invoked[i].node, i)

\* a node was executed with two slots from two sources holding different,
\* two-item outputs
C5_Witness ==
    \E i \in DOMAIN invoked :
      /\ Len(invoked[i].inputs) = 2
      /\ invoked[i].inputs[1] # invoked[i].inputs[2]
      /\ Len(invoked[i].inputs[1]) = 2 /\ Len(invoked[i].inputs[2]) = 2
      /\ \E c, d \in ConnSet(config.connections) :
           c.target = invoked[i].node /\ d.target = invoked[i].node /\ c.source # d.source

(* --------------------------------- C6 ---------------------------------- *)
\* C6: once a node's Execute has returned an error no further node is called
\* and no further log row is written after that node's error row; the call
\* returns that error, which names the node, with the record failed and
\* carrying the same error.
C6_NodeFailureStopsRun ==
    \A i \in DOMAIN invoked :
      invoked[i].failed =>
        /\ i = Len(invoked)
        /\ pc \in {"finish", "returned"}
        /\ logs # <<>>
        /\ logs[Len(logs)].level = "error" /\ logs[Len(logs)].node_id = invoked[i].node
        /\ \A k \in DOMAIN logs : logs[k].level = "data" => logs[k].node_id # invoked[i].node
        /\ runErr.kind = "node" /\ runErr.node = invoked[i].node
        /\ pc = "returned" =>
             /\ ret.id = executionID /\ ret.err = runErr
             /\ Record.status = "failed" /\ Record.error_message = runErr

\* a run returned after its second node failed, a third node still to come
C6_Witness ==
    /\ pc = "returned"
    /\ Len(invoked) = 2 /\ invoked[2].failed
    /\ Len(order) = 3 /\ order[2] = invoked[2].node
    /\ Record.status = "failed"

(* --------------------------------- C7 ---------------------------------- *)
\* C7: Execute returns the identifier of the record it created, in the
\* success case and in every failure case.
C7_AlwaysReturnsID ==
    (pc = "returned" /\ Created) => ret.id = executionID

(* --------------------------------- C8 ---------------------------------- *)
\* C8: a returned Execute call leaves the record it created in a terminal
\* status, written by one update after the insert.
C8_RecordEndsTerminal ==
    (pc = "returned" /\ Created)
    => /\ Record.status \in {"success", "failed"}
       /\ Len(statusLog) = 2

(* --------------------------------- C9 ---------------------------------- *)
ZeroNodes == Stored /\ pipes["p1"].config.nodes = <<>>

\* C9: on a stored definition with zero nodes Execute returns no error, calls
\* no node, writes no log row and creates one record, which goes from
\* running to success with item count 0.
C9_EmptyPipelineSucceeds ==
    (pc = "returned" /\ ZeroNodes)
    => /\ ret.err = NoErr
       /\ invoked = <<>>
       /\ logs = <<>>
       /\ DOMAIN executions = {ret.id}
       /\ statusLog = <<"running", "success">>
       /\ executions[ret.id].status = "success"
       /\ executions[ret.id].items_processed = 0

\* a definition with zero nodes and two Connections was run to its return
C9_Witness ==
    /\ pc = "returned" /\ ZeroNodes
    /\ Len(pipes["p1"].config.connections) = 2
    /\ Created /\ Record.status = "success"

(* --------------------------------- C10 --------------------------------- *)
DataRows == SelectSeq(logs, LAMBDA row : row.level = "data")

\* C10: in a successful run the data rows of the log are one per executed
\* node, in execution order, each with that node's output length, and the
\* record's item count is the output length of the last node executed.
C10_ItemCountIsLastOutput ==
    (pc = "returned" /\ Created /\ Record.status = "success")
    => /\ Len(DataRows) = Len(invoked)
       /\ \A i \in DOMAIN invoked :
            /\ DataRows[i].node_id = invoked[i].node
            /\ DataRows[i].n = Len(invoked[i].output)
       /\ Record.items_processed =
            IF invoked = <<>> THEN 0 ELSE Len(invoked[Len(invoked)].output)

(* --------------------------------- C11 --------------------------------- *)
\* tick has gone through all the jobs it fetched
TickOver(g) == goroutines[g].pc = "jobs" /\ goroutines[g].i > Len(goroutines[g].due)

\* executeJob's UPDATE for the job took effect: last_run_at is set and
\* next_run_at is later than it was when tick fetched the job
RescheduledIn(rows, job) ==
    /\ rows[job.id].last_run_at >= 0
    /\ rows[job.id].next_run_at > job.next_run_at

Rescheduled(job) == RescheduledIn(jobs, job)

\* C11: within one tick the jobs that were fetched as due are executed one
\* after the other with none skipped, whether or not an earlier job's
\* execution or reschedule write failed; a reschedule write that succeeds
\* leaves the job with last_run_at set and next_run_at advanced, also when
\* the job's execution failed; when the tick is over every fetched job was
\* executed.
C11_NoSiblingSkipped ==
    [][\A g \in GoroutineNames :
         LET s == goroutines[g]
             t == goroutines'[g]
         IN  /\ Len(t.ran) <= Len(t.due)
             /\ \A k \in DOMAIN t.ran : t.ran[k].job = t.due[k].id
             /\ TickOver(g)' => Len(t.ran) = Len(t.due)
             /\ (Len(t.ran) = Len(s.ran) + 1 /\ t.ran[Len(t.ran)].updated)
                   => RescheduledIn(jobs', t.due[Len(t.ran)])]_vars

\* a tick over two due jobs is over: the first job's execution failed and the
\* job was rescheduled; the second job was executed and rescheduled
C11_Witness ==
    \E g \in GoroutineNames :
      LET t == goroutines[g]
      IN  /\ TickOver(g)
          /\ Len(t.due) = 2
          /\ t.ran[1].execFailed /\ t.ran[1].updated /\ Rescheduled(t.due[1])
          /\ t.ran[2].updated /\ Rescheduled(t.due[2])

(* --------------------------------- C12 --------------------------------- *)
\* the type strings this model uses
TypeStrings == {Kinds[k].type : k \in DOMAIN Kinds} \cup Registered

TypeOf(id) == config.nodes[findNode(config.nodes, id)].type
InvokedNodes == {invoked[i].node : i \in DOMAIN invoked}

\* C12: Get fails exactly for the type strings with no registered
\* implementation. No node of such a type is ever executed; when the loop
\* reaches one, Execute returns the unknown-node-type error naming that type,
\* neither that node nor any node after it in the order was executed, and the
\* record ends failed with that error.
C12_UnknownTypeAborts ==
    /\ \A t \in TypeStrings : RegistryGet(t).ok <=> t \in {"rss-source", "filter", "sort", "limit"}
    /\ \A id \in InvokedNodes : TypeOf(id) \in Registered
    /\ (pc \in {"finish", "returned"} /\ runErr.kind = "get node type")
       => /\ TypeOf(order[idx]) = runErr.type
          /\ runErr.type \notin Registered
          /\ \A j \in idx..Len(order) : order[j] \notin InvokedNodes
    /\ (pc = "returned" /\ ret.err.kind = "get node type")
       => /\ ret.err = runErr
          /\ Record.status = "failed"
          /\ Record.error_message = ret.err
    /\ (pc = "returned" /\ ret.err = NoErr)
       => \A j \in DOMAIN order :
            order[j] \in NodeIDs(config.nodes) => TypeOf(order[j]) \in Registered

\* a run has returned the unknown-node-type error: one node was executed
\* before the node of unknown type, one node comes after it in the order
C12_Witness ==
    /\ pc = "returned"
    /\ ret.err.kind = "get node type"
    /\ Len(order) = 3 /\ idx = 2
    /\ Len(invoked) = 1
    /\ order[3] \in NodeIDs(config.nodes)
    /\ Record.status = "failed"

(* --------------------------------- C13 --------------------------------- *)
\* C13: Execute on a pipe id that table pipes does not hold returns the
\* pipe-not-found error, Execute on a stored configuration that does not
\* parse returns the parse error, and in both cases no node was executed.
C13_LoadErrorsSurfaced ==
    /\ (pc = "returned" /\ pipeID \notin DOMAIN pipes)
       => ret.err.kind = "pipe not found" /\ invoked = <<>>
    /\ (pc = "returned" /\ pipeID \in DOMAIN pipes /\ pipes[pipeID].malformed)
       => ret.err.kind = "parse config" /\ invoked = <<>>

(* --------------------------------- C14 --------------------------------- *)
\* C14: when a write of the run failed (the insert of the record, the append
\* of a log row, the terminal update) Execute returns an error; an Execute
\* that returns nil has written success to its record.
C14_WriteFailureReturned ==
    /\ (pc = "returned" /\ writeFailed # {}) => ret.err # NoErr
    /\ (pc = "returned" /\ ret.err = NoErr) => Created /\ Record.status = "success"

(* --------------------------------- C15 --------------------------------- *)
\* C15: once Stop has returned no tick begins and Execute is called for no
\* job: neither by the goroutine of the start-up tick, nor by a tick that was
\* under way when Stop was called, nor by the polling goroutine.
C15_NothingAfterStop ==
    stopped => late = {}

(* --------------------------------- C16 --------------------------------- *)
\* the locals of one of the two concurrent calls
CallLocals(call) == IF call = self THEN Locals ELSE parked

\* the invocations of node id that returned an output before invocation i of the run
OwnProducedBefore(run, id, i) ==
    {j \in 1..(i - 1) : run.invoked[j].node = id /\ ~run.invoked[j].failed}

\* the outputs, in the run itself, of the sources of the Connections into nodeID
RECURSIVE OwnUpstream(_, _, _, _)
OwnUpstream(run, connections, nodeID, i) ==
    IF connections = <<>> THEN <<>>
    ELSE LET c == Head(connections)
             rest == OwnUpstream(run, Tail(connections), nodeID, i)
         IN  IF c.target = nodeID /\ OwnProducedBefore(run, c.source, i) # {}
             THEN <<run.invoked[CHOOSE j \in OwnProducedBefore(run, c.source, i) : TRUE].output>>
                  \o rest
             ELSE rest

\* the data rows that table execution_logs holds for a record
DataRowsOf(id) == SelectSeq(logs, LAMBDA row : row.level = "data" /\ row.execution_id = id)

\* the invocations of a run that returned an output
Outputs(run) == SelectSeq(run.invoked, LAMBDA inv : ~inv.failed)

\* C16: of two concurrent Execute calls each has a record of its own, under
\* an identifier the other does not have and with its own trigger; the
\* node-output map of a call holds outputs of its own node executions only,
\* and the inputs of each node are built from them; the data rows logged
\* under its identifier are its own outputs; and its record is running until
\* the call itself writes success or failed, according to its own result.
C16_RunsIsolated ==
    \A call \in {1, 2} :
      LET run == CallLocals(call)
          other == CallLocals(3 - call)
          id == run.executionID
      IN  /\ (id # "" /\ other.executionID # "") => id # other.executionID
          /\ \A n \in DOMAIN run.nodeResults :
               \E i \in DOMAIN run.invoked :
                 /\ run.invoked[i].node = n /\ ~run.invoked[i].failed
                 /\ run.invoked[i].output = run.nodeResults[n]
          /\ \A i \in DOMAIN run.invoked :
               run.invoked[i].inputs =
                 OwnUpstream(run, run.config.connections, run.invoked[i].node, i)
          /\ id \in DOMAIN executions =>
               /\ executions[id].trigger_type = Triggers[call]
               /\ Len(DataRowsOf(id)) = Len(Outputs(run))
               /\ \A k \in DOMAIN Outputs(run) :
                    /\ DataRowsOf(id)[k].node_id = Outputs(run)[k].node
                    /\ DataRowsOf(id)[k].metadata = Outputs(run)[k].output
               /\ run.pc \notin {"returned"} => executions[id].status = "running"
               /\ (run.pc = "returned" /\ run.ret.id # "") =>
                    /\ run.ret.id = id
                    /\ IF run.ret.err = NoErr
                       THEN /\ executions[id].status = "success"
                            /\ executions[id].items_processed =
                                 LastItemCount(run.order, run.nodeResults)
                       ELSE /\ executions[id].status = "failed"
                            /\ executions[id].error_message = run.ret.err

\* two calls on the pipe source -> limit have returned, their log rows
\* interleaved: one succeeded, its limit node fed by its own source's items;
\* the other failed in its source, after the first had stored its source's output
C16_Witness ==
    /\ pc = "returned" /\ parked.pc = "returned"
    /\ ret.err = NoErr /\ parked.ret.err.kind = "node"
    /\ executions[executionID].status = "success"
    /\ executions[parked.executionID].status = "failed"
    /\ Len(invoked) = 2 /\ invoked[2].inputs = <<invoked[1].output>> /\ invoked[1].output # <<>>
    /\ \E i, j, k \in DOMAIN logs :
         /\ i < j /\ j < k
         /\ logs[i].execution_id = executionID
         /\ logs[j].execution_id = parked.executionID
         /\ logs[k].execution_id = executionID

(* --------------------------------- C17 --------------------------------- *)
\* C17: a filter, sort or limit node whose Execute is called with no input
\* slot, or with a first slot that holds no item, returns no error and an
\* output without items, whatever its configuration.
C17_EmptyInEmptyOut ==
    (pc = "nodeDone" /\ (invoked[1].inputs = <<>> \/ invoked[1].inputs[1] = <<>>))
    => /\ ~invoked[1].failed
       /\ invoked[1].output = <<>>

\* a sort node with a field and the order desc was called with two slots,
\* the first without items, the second with two
C17_Witness ==
    /\ pc = "nodeDone"
    /\ config.nodes[1].type = "sort"
    /\ config.nodes[1].config.field = "title" /\ config.nodes[1].config.order = "desc"
    /\ Len(invoked[1].inputs) = 2
    /\ invoked[1].inputs[1] = <<>> /\ Len(invoked[1].inputs[2]) = 2
    /\ invoked[1].output = <<>>

(* --------------------------------- C18 --------------------------------- *)
\* C18: the first write of a run is the insert of its record with status
\* running: whenever a node has been executed or a log row exists the record
\* exists, the first node was called when the log held no row, and the record
\* says running for as long as the run has not come to its terminal update;
\* when the insert fails Execute returns with no node executed and no log row.
C18_RecordBeforeNodes ==
    /\ (invoked # <<>> \/ logs # <<>>) => Created /\ statusLog[1] = "running"
    /\ invoked # <<>> => invoked[1].at = 0
    /\ pc \in {"load", "sort", "loop", "finish"} => Created /\ Record.status = "running"
    /\ (pc = "returned" /\ ret.err.kind = "create execution")
       => ~Created /\ invoked = <<>> /\ logs = <<>>

\* the first node of a run has been executed and has logged; the record says
\* running
C18_Witness ==
    /\ pc = "loop"
    /\ Len(invoked) = 1 /\ Len(logs) > 1
    /\ Record.status = "running"
    /\ statusLog = <<"running">>

(* --------------------------------- C19 --------------------------------- *)
\* the ids of the order that are nodes, in the order's order
NodesInOrder == SelectSeq(order, LAMBDA id : id \in NodeIDs(config.nodes))

\* the position in the log of the data row that executePipeline wrote for
\* invocation i, 0 when there is none
DataRowOf(i) ==
    LET rows == {r \in DOMAIN logs : /\ logs[r].level = "data"
                                     /\ logs[r].node_id = invoked[i].node
                                     /\ logs[r].metadata = invoked[i].output}
    IN  IF rows = {} THEN 0 ELSE CHOOSE r \in rows : TRUE

\* C19: the nodes of a run are executed one at a time in the resolved order:
\* the executed nodes are the first nodes of the order, and when a node is
\* called every node executed before it has returned without error, its
\* output is in the node-output map and its data row is in the log, written
\* after its own call and before the later one.
C19_StrictlySequential ==
    /\ Len(invoked) <= Len(NodesInOrder)
    /\ \A i \in DOMAIN invoked :
         /\ invoked[i].node = NodesInOrder[i]
         /\ \A j \in 1..(i - 1) :
              /\ ~invoked[j].failed
              /\ invoked[j].node \in DOMAIN nodeResults
              /\ nodeResults[invoked[j].node] = invoked[j].output
              /\ invoked[j].at < DataRowOf(j)
              /\ DataRowOf(j) <= invoked[i].at

\* three nodes were executed, one after the other, in a definition with a
\* single Connection: two of them are on branches of their own
C19_Witness ==
    /\ Len(invoked) = 3
    /\ Len(config.connections) = 1
    /\ config.connections[1].source # config.connections[1].target
    /\ invoked[1].at < invoked[2].at /\ invoked[2].at < invoked[3].at

(* --------------------------------- C20 --------------------------------- *)
\* the rows of the log that executePipeline wrote for failed nodes
ErrorRows == SelectSeq(logs, LAMBDA row : row.level = "error")

\* C20: no node is executed twice in a run, whatever maxRetries the
\* definition's settings hold: a node whose Execute failed is the last node
\* executed, and a run that returns a node's error has written one error row
\* and leaves one record, which went from running to failed.
C20_NoRetry ==
    /\ \A i, j \in DOMAIN invoked : i # j => invoked[i].node # invoked[j].node
    /\ \A i \in DOMAIN invoked : invoked[i].failed => i = Len(invoked)
    /\ (pc = "returned" /\ ret.err.kind = "node")
       => /\ Len(ErrorRows) = 1
          /\ DOMAIN executions = {executionID}
          /\ Record.status = "failed"
          /\ statusLog = <<"running", "failed">>

\* a definition that asks for retries was run, its second node failed and the
\* run has returned: the node was executed once
C20_Witness ==
    /\ pc = "returned"
    /\ config.settings.maxRetries > 0
    /\ Len(invoked) = 2 /\ invoked[2].failed
    /\ ret.err.kind = "node" /\ ret.err.node = invoked[2].node
    /\ Record.status = "failed"

(* --------------------------------- C21 --------------------------------- *)
\* the jobs a tick fetched, by id
DueIDs(g) == [k \in DOMAIN goroutines[g].due |-> goroutines[g].due[k].id]

\* the jobs for which goroutine g has called Execute in its tick
ExecutedIDs(g) ==
    Range([k \in DOMAIN goroutines[g].ran |-> goroutines[g].ran[k].job])
      \cup (IF goroutines[g].pc = "update"
            THEN {goroutines[g].due[goroutines[g].i].id} ELSE {})

HasRun(id) == jobs[id].last_run_at >= 0

\* C22: a row the Scheduler has rescheduled holds the time of the run in
\* last_run_at and that time plus 3600 s in next_run_at; so next_run_at is
\* after last_run_at, and the job is not due at any time less than an hour
\* after last_run_at.
C22_OneHourLater ==
    \A id \in DOMAIN jobs :
      HasRun(id) =>
        /\ jobs[id].next_run_at = jobs[id].last_run_at + 3600
        /\ jobs[id].next_run_at > jobs[id].last_run_at
        /\ now < jobs[id].last_run_at + 3600 => id \notin GetDueJobs(jobs, now)

(* --------------------------------- C23 --------------------------------- *)
\* C23: no step of Execute and no step of the Scheduler changes a stored
\* Pipeline Definition, and no step of the Scheduler removes a job row or
\* changes its enabled flag, pipeline id or cron expression, whatever the
\* outcome of the execution it triggered.
C23_FrameKept ==
    [][/\ \A p \in DOMAIN pipes : p \in DOMAIN pipes' /\ pipes'[p] = pipes[p]
       /\ \A id \in DOMAIN jobs :
            /\ id \in DOMAIN jobs'
            /\ jobs'[id].enabled = jobs[id].enabled
            /\ jobs'[id].pipe_id = jobs[id].pipe_id
            /\ jobs'[id].cron_expression = jobs[id].cron_expression]_vars

\* a tick is over in which a job's execution failed and the job was
\* rescheduled: the row is still enabled, for the same pipe and cron expression
C23_Witness ==
    \E g \in GoroutineNames :
      LET t == goroutines[g]
      IN  /\ TickOver(g)
          /\ Len(t.ran) >= 1
          /\ t.ran[1].execFailed /\ t.ran[1].updated
          /\ HasRun(t.due[1].id)
          /\ jobs[t.due[1].id].enabled
          /\ jobs[t.due[1].id].pipe_id = t.due[1].pipe_id
          /\ jobs[t.due[1].id].cron_expression = CronExpression

(* --------------------------------- C24 --------------------------------- *)
\* the calls of nodeImpl.Execute made after ctx was cancelled
AfterCancel == {i \in DOMAIN invoked : cancelledAt >= 0 /\ i > cancelledAt}

\* C24: no node executed after ctx was cancelled completes: the first such
\* node fails, no node is executed after it, and the run's record ends failed.
C24_CancelAborts ==
    /\ \A i \in AfterCancel : invoked[i].failed
    /\ Cardinality(AfterCancel) <= 1
    /\ (pc = "returned" /\ AfterCancel # {}) => Created /\ Record.status = "failed"

(* --------------------------------- C25 --------------------------------- *)
\* the Scheduler's state by its most recent call: Start made a ticker that
\* no Stop has stopped since
Running == ticker = "running"

\* the polling goroutine of lines 97-106 has not returned
LoopActive == goroutines["loop"].pc \in {"select", "tick", "jobs", "update"}

\* C25: no call of Start or Stop faults, and while the most recent call is
\* Start the polling loop is active, also after an earlier Stop.
C25_StartStopMachine ==
    /\ done # "panic"
    /\ Running => LoopActive

(* --------------------------------- C26 --------------------------------- *)
Terminal(row) == row.status \in {"success", "failed"}

\* C26: every step leaves each Execution Record with a status of running,
\* success or failed; a new record is running; a record that was success or
\* failed is left as it was; no record is removed; items_processed is set on
\* success records only, error_message on failed records only, and the
\* completion time on success and failed records only.
C26_StatusAbsorbing ==
    [][/\ DOMAIN executions \subseteq DOMAIN executions'
       /\ \A id \in DOMAIN executions' :
            LET new == executions'[id]
            IN  /\ new.status \in {"running", "success", "failed"}
                /\ new.items_processed >= 0 => new.status = "success"
                /\ new.error_message # NoErr => new.status = "failed"
                /\ new.completed => Terminal(new)
                /\ id \notin DOMAIN executions => new.status = "running"
                /\ (id \in DOMAIN executions /\ Terminal(executions[id]))
                      => new = executions[id]]_vars

\* two runs have returned, one failed and one success, each with its own
\* record
C26_Witness ==
    /\ pc = "returned" /\ parked.pc = "returned"
    /\ DOMAIN executions = {"e1", "e2"}
    /\ \E a, b \in DOMAIN executions :
         /\ executions[a].status = "failed"
         /\ executions[a].error_message # NoErr
         /\ executions[a].items_processed = -1
         /\ executions[b].status = "success"
         /\ executions[b].items_processed >= 0
         /\ executions[b].error_message = NoErr

(* --------------------------------- C27 --------------------------------- *)
\* how often the run called Execute for the node, and how many data rows
\* the log holds for it
TimesInvoked(id) == Cardinality({i \in DOMAIN invoked : invoked[i].node = id})
DataRowCount(id) ==
    Cardinality({r \in DOMAIN logs : logs[r].level = "data" /\ logs[r].node_id = id})

\* C27: when a run's record is success every node of the definition was
\* executed once and has one data row, and the record's item count is the
\* output length of a node that was executed (0 for a definition without
\* nodes).
C27_SuccessCoversAllNodes ==
    (pc = "returned" /\ Created /\ Record.status = "success")
    => /\ \A id \in NodeIDs(config.nodes) : TimesInvoked(id) = 1 /\ DataRowCount(id) = 1
       /\ IF config.nodes = <<>>
          THEN Record.items_processed = 0
          ELSE \E i \in DOMAIN invoked : Record.items_processed = Len(invoked[i].output)

(* --------------------------------- C28 --------------------------------- *)
\* goroutine g has called Execute for the job and has not yet written the
\* job's reschedule
Processing(g, id) ==
    /\ goroutines[g].pc = "update"
    /\ goroutines[g].due[goroutines[g].i].id = id

\* C28: no job is being processed by the start-up tick and by a tick of the
\* polling loop at once: Execute is not called for a job a second time before
\* the reschedule that follows the first call is written.
C28_NoDoubleProcessing ==
    \A id \in DOMAIN jobs : ~(Processing("first", id) /\ Processing("loop", id))

(* --------------------------------- C29 --------------------------------- *)
\* the job is enabled and its next_run_at has passed
Due(id) ==
    /\ id \in DOMAIN jobs
    /\ jobs[id].enabled
    /\ jobs[id].next_run_at <= now

\* the job has been run and rescheduled to a time that is still to come
RanAndRescheduled(id) ==
    /\ id \in DOMAIN jobs
    /\ HasRun(id)
    /\ jobs[id].next_run_at > now

\* C29: while the Scheduler is Running, an enabled job whose next_run_at has
\* passed is eventually executed and rescheduled, so that its next_run_at is
\* ahead of the clock again, whether or not executions fail, the job's own or
\* another job's.
C29_DueJobsEventuallyRun ==
    \A id \in Range(JobIDs) : (Running /\ Due(id)) ~> RanAndRescheduled(id)

\* after the clock has moved, a tick of the polling loop is over that ran two
\* jobs: the first one's execution failed, and both were rescheduled
C29_Witness ==
    LET t == goroutines["loop"]
    IN  /\ Running /\ now > 0
        /\ TickOver("loop")
        /\ Len(t.ran) = 2
        /\ t.ran[1].execFailed
        /\ \A k \in 1..2 : HasRun(t.due[k].id) /\ jobs[t.due[k].id].next_run_at > now

(* --------------------------------- C30 --------------------------------- *)
\* C30: every step leaves the rows that were in the log as they were, in
\* their places, and every row of the log carries the run's execution id, a
\* level of info, error or data, and as node id the id of a node of the
\* executed definition.
C30_LogEntriesWellFormed ==
    [][/\ Len(logs) <= Len(logs')
       /\ \A r \in DOMAIN logs : logs'[r] = logs[r]
       /\ \A r \in DOMAIN logs' :
            /\ logs'[r].execution_id = executionID'
            /\ logs'[r].level \in {"info", "error", "data"}
            /\ logs'[r].node_id \in NodeIDs(config'.nodes)]_vars

====
